---- MODULE Spec2Model ----
(***************************************************************************)
(* CuGraphRGCNConv (torch_geometric/nn/conv/cugraph/rgcn_conv.py): the     *)
(* relational graph convolution layer that wraps the fused aggregation     *)
(* kernel agg_hg_basis_n2n_post.                                           *)
(*                                                                         *)
(* Tensors are sequences (a matrix is a sequence of rows, the rank-3       *)
(* weight a sequence of matrices).  Numbers are exact: every value the     *)
(* forward pass produces is kept multiplied by Scale, the least common     *)
(* multiple of the degrees a mean can divide by, so that sum, mean, matrix *)
(* product and bias add are integer arithmetic without rounding.           *)
(***************************************************************************)
EXTENDS Integers, Sequences, FiniteSets, TLC

VARIABLES
    RGCNConvAgg,   \* is the module-level name RGCNConvAgg bound (import at lines 11-15)
    self,          \* the layer object: None, or Some(its attributes)
    call           \* the caller's position: Idle, or the record of the call that just ended

vars == <<RGCNConvAgg, self, call>>

---------------------------------------------------------------------------
(* Bounds of the model. *)

\* in_channels + out_channels + num_relations + num_bases of a constructed layer
MaxDims == 5
\* source nodes + target nodes + edges of a graph handed to forward
MaxGraph == 4
\* states the random stream may be in when glorot draws from it
NumSeeds == 2

---------------------------------------------------------------------------
(* Optional values (Python's None / a value). *)

None == [some |-> FALSE]
Some(v) == [some |-> TRUE, val |-> v]

Idle == [op |-> "idle"]

\* the strings tried as aggr: the three accepted ones and some others
AggrStrings == {"sum", "add", "mean", "max", ""}

\* what an uninitialised torch.Tensor(...) may hold in each entry
Uninit == {0, 7}

\* what a kernel read past the end of the feature matrix may return
Garbage == {0, 5}

---------------------------------------------------------------------------
(* Arithmetic helpers. *)

RECURSIVE SumSeq(_, _)
SumSeq(s, n) == IF n = 0 THEN 0 ELSE s[n] + SumSeq(s, n - 1)

RECURSIVE Gcd(_, _)
Gcd(a, b) == IF b = 0 THEN a ELSE Gcd(b, a % b)

RECURSIVE LcmUpTo(_)
LcmUpTo(n) == IF n <= 1 THEN 1 ELSE LET l == LcmUpTo(n - 1) IN (l * n) \div Gcd(l, n)

\* a graph of the model has at most MaxGraph - 2 edges, so no degree exceeds that
Scale == LcmUpTo(MaxGraph - 2)

Rows(m) == Len(m)
Cols(m) == IF Len(m) = 0 THEN 0 ELSE Len(m[1])

Eye(n) == [i \in 1..n |-> [j \in 1..n |-> IF i = j THEN 1 ELSE 0]]

\* a @ b for a of shape (n, k) and b of shape (k, m)
MatMul(a, b) ==
    [i \in 1..Rows(a) |->
        [j \in 1..Cols(b) |->
            SumSeq([k \in 1..Rows(b) |-> a[i][k] * b[k][j]], Rows(b))]]

\* weight.view(-1, out_channels): the slices of the rank-3 tensor stacked
RECURSIVE Flatten(_, _)
Flatten(w, n) == IF n = 0 THEN <<>> ELSE Flatten(w, n - 1) \o w[n]

---------------------------------------------------------------------------
(* Collaborators outside the file: the module base class and the           *)
(* initialisation helpers of torch_geometric.nn.inits.                     *)

\* CuGraphModule.__init__ (super().__init__(), line 31): a module with no
\* parameter registered yet; it does not need the aggregation kernel
CuGraphModule == [training |-> TRUE]

\* the k-th value drawn from the random stream in state s
Rand(s, k) == ((3 * s + 2 * k) % 5) - 2

\* glorot(tensor) on a matrix: every entry redrawn, off values already drawn.
\* The variance scale of the real helper is not represented: the values stand
\* for points of the interval (-a, a) it draws from.
GlorotMat(m, s, off) ==
    [i \in 1..Rows(m) |-> [j \in 1..Cols(m) |-> Rand(s, off + (i - 1) * Cols(m) + j)]]

\* glorot(value) on an optional parameter: nothing to do for None
Glorot(p, s, off) == IF p = None THEN None ELSE Some(GlorotMat(p.val, s, off))

\* zeros(value): in-place zero fill, nothing to do for None
Zeros(p) == IF p = None THEN None ELSE Some([j \in 1..Len(p.val) |-> 0])

\* torch.Tensor(n, m): allocated, not initialised
Tensor2(n, m, u) == [i \in 1..n |-> [j \in 1..m |-> u]]
\* torch.Tensor(b, n, m)
Tensor3(b, n, m, u) == [k \in 1..b |-> Tensor2(n, m, u)]
\* torch.Tensor(n)
Tensor1(n, u) == [j \in 1..n |-> u]

Numel(m) == Rows(m) * Cols(m)

---------------------------------------------------------------------------
(* CuGraphRGCNConv.reset_parameters, lines 64-70.  s is the state of the   *)
(* random stream when it is called.                                        *)

\* lines 65-69: the relation/basis slices, comp and the root slice redrawn
reset_weights(obj, s) ==
    LET B == Len(obj.weight)
        \* end = -1 if self.root_weight else None
        front == IF obj.root_weight THEN B - 1 ELSE B
        per == IF B = 0 THEN 0 ELSE Numel(obj.weight[1])
        \* glorot(self.weight[:end])
        w1 == [b \in 1..B |->
                 IF b <= front THEN GlorotMat(obj.weight[b], s, (b - 1) * per)
                 ELSE obj.weight[b]]
        \* glorot(self.comp)
        comp1 == Glorot(obj.comp, s, front * per)
        drawn == front * per + (IF obj.comp = None THEN 0 ELSE Numel(obj.comp.val))
        \* if self.root_weight: glorot(self.weight[-1])
        w2 == IF obj.root_weight
              THEN [w1 EXCEPT ![B] = GlorotMat(w1[B], s, drawn)]
              ELSE w1
    IN  [obj EXCEPT !.weight = w2, !.comp = comp1]

\* faulty variant: reset_parameters without its last line, zeros(self.bias)
reset_parameters_no_zeros(obj, s) == reset_weights(obj, s)

\* lines 64-70, ending with zeros(self.bias)
reset_parameters(obj, s) ==
    [reset_weights(obj, s) EXCEPT !.bias = Zeros(obj.bias)]

---------------------------------------------------------------------------
(* CuGraphRGCNConv.__init__, lines 28-62.  a holds the arguments, u what    *)
(* the freshly allocated tensors contain, s the state of the random stream. *)

\* faulty variant: every string accepted
valid_aggr_any(aggr) == TRUE

\* line 33: aggr in ['sum', 'add', 'mean']
valid_aggr(aggr) == aggr \in {"sum", "add", "mean"}

\* faulty variant: the slice of the root weight forgotten
weight_shape_no_root(a) ==
    <<IF a.num_bases # None THEN a.num_bases.val ELSE a.num_relations,
      a.in_channels, a.out_channels>>

\* lines 44-54: the shape the weight tensor is allocated with
weight_shape(a) ==
    LET dim_root_weight == IF a.root_weight THEN 1 ELSE 0
    IN  <<(IF a.num_bases # None THEN a.num_bases.val ELSE a.num_relations)
             + dim_root_weight,
          a.in_channels, a.out_channels>>

\* faulty variant: comp allocated as (num_bases, num_relations)
comp_shape_transposed(a) ==
    IF a.num_bases # None THEN Some(<<a.num_bases.val, a.num_relations>>) ELSE None

\* lines 50 and 55: the shape comp is allocated with, None when it is
\* registered as an absent parameter
comp_shape(a) ==
    IF a.num_bases # None THEN Some(<<a.num_relations, a.num_bases.val>>) ELSE None

__init__(a, u, s) ==
    LET obj0 == CuGraphModule
    IN  IF ~valid_aggr(a.aggr)
        THEN [status |-> "ValueError", obj |-> obj0]
        ELSE
          LET obj1 == obj0 @@ [in_channels |-> a.in_channels,
                               out_channels |-> a.out_channels,
                               num_relations |-> a.num_relations,
                               num_bases |-> a.num_bases,
                               aggr |-> a.aggr,
                               root_weight |-> a.root_weight]
              ws == weight_shape(a)
              cs == comp_shape(a)
              obj2 == obj1 @@ [weight |-> Tensor3(ws[1], ws[2], ws[3], u),
                               comp |-> IF cs = None THEN None
                                        ELSE Some(Tensor2(cs.val[1], cs.val[2], u))]
              obj3 == IF a.bias
                      THEN obj2 @@ [bias |-> Some(Tensor1(a.out_channels, u))]
                      ELSE obj2 @@ [bias |-> None]
          IN  [status |-> "ok", obj |-> reset_parameters(obj3, s)]

\* the argument tuples tried: positive sizes whose sum stays within MaxDims
CtorArgs ==
    { [in_channels |-> i, out_channels |-> o, num_relations |-> r, num_bases |-> nb,
       aggr |-> ag, root_weight |-> rw, bias |-> bi] :
        i \in 1..(MaxDims - 2), o \in 1..(MaxDims - 2), r \in 1..(MaxDims - 2),
        nb \in {None} \cup {Some(b) : b \in 1..(MaxDims - 3)},
        ag \in AggrStrings, rw \in BOOLEAN, bi \in BOOLEAN }

DimSum(a) ==
    a.in_channels + a.out_channels + a.num_relations
      + (IF a.num_bases = None THEN 0 ELSE a.num_bases.val)

---------------------------------------------------------------------------
(* The typed graph builder and the aggregation kernel (external).          *)

\* self.get_typed_cugraph(num_src_nodes, csc, edge_type, num_edge_types,
\* max_num_neighbors): an opaque handle built from its arguments
get_typed_cugraph(num_src_nodes, csc, edge_type, num_edge_types, max_num_neighbors) ==
    [num_src_nodes |-> num_src_nodes, row |-> csc[1], colptr |-> csc[2],
     edge_type |-> edge_type, num_edge_types |-> num_edge_types,
     max_num_neighbors |-> max_num_neighbors]

NumTargets(graph) == Len(graph.colptr) - 1

\* every index the kernel will read lies inside the feature matrix
InRange(x, graph, concat_own) ==
    /\ \A e \in 1..Len(graph.row) : graph.row[e] < Rows(x)
    /\ concat_own => NumTargets(graph) <= Rows(x)

\* x[u][k] as the kernel reads it; u is a 0-based node id.  A read past the
\* end of x is not checked: it returns whatever ub.read says
Feat(x, u, k, ub) == IF u < Rows(x) THEN x[u + 1][k] ELSE ub.read

\* the features of the type-r neighbours of target v, summed (times Scale)
\* or averaged over the type-r in-degree of v (times Scale)
AggRel(x, graph, v, r, k, norm, ub) ==
    LET E == Len(graph.row)
        mine(e) == /\ graph.colptr[v + 1] < e
                   /\ e <= graph.colptr[v + 2]
                   /\ graph.edge_type[e] = r
        deg == Cardinality({e \in 1..E : mine(e)})
        total == SumSeq([e \in 1..E |->
                           IF mine(e) THEN Feat(x, graph.row[e], k, ub) ELSE 0], E)
    IN  IF deg = 0 THEN 0
        ELSE IF norm THEN (Scale \div deg) * total ELSE Scale * total

\* agg_hg_basis_n2n_post(x, comp, graph, concat_own, norm_by_out_degree):
\* one row per target node; one block of x's width per relation (comp None)
\* or per basis (the relation blocks combined by the columns of comp), and
\* after them the node's own features when concat_own
agg_hg_basis_n2n_post(x, comp, graph, concat_own, norm_by_out_degree, ub) ==
    LET w == Cols(x)
        R == graph.num_edge_types
        K == IF comp = None THEN R ELSE Cols(comp.val)
        width == (K + (IF concat_own THEN 1 ELSE 0)) * w
        entry(v, c) ==
            LET b == ((c - 1) \div w) + 1
                k == ((c - 1) % w) + 1
            IN  IF b > K THEN Scale * Feat(x, v, k, ub)
                ELSE IF comp = None
                     THEN AggRel(x, graph, v, b - 1, k, norm_by_out_degree, ub)
                     ELSE SumSeq([r \in 1..R |->
                                    comp.val[r][b]
                                      * AggRel(x, graph, v, r - 1, k, norm_by_out_degree, ub)],
                                 R)
    IN  IF ~InRange(x, graph, concat_own) /\ ub.crash
        THEN [status |-> "IllegalMemoryAccess", out |-> <<>>]
        ELSE [status |-> "ok",
              out |-> [v \in 1..NumTargets(graph) |-> [c \in 1..width |-> entry(v - 1, c)]]]

\* how an unchecked read may end: the process faults, or it reads some value
UBChoices ==
    {[crash |-> TRUE, read |-> 0]} \cup {[crash |-> FALSE, read |-> g] : g \in Garbage}

---------------------------------------------------------------------------
(* CuGraphRGCNConv.forward, lines 72-107.  kernel says whether the name    *)
(* RGCNConvAgg is bound; ub resolves the reads the kernel does not check.  *)

\* faulty variant: the identity sized by the number of target nodes of the graph
default_x_targets(obj, x, csc) ==
    IF x = None THEN Eye(Len(csc[2]) - 1) ELSE x.val

\* lines 93-94: if x is None: x = torch.eye(self.in_channels, ...)
default_x(obj, x, csc) ==
    IF x = None THEN Eye(obj.in_channels) ELSE x.val

\* faulty variant: 'add' taken for a mean
kernel_flags_add_as_mean(obj) ==
    [concat_own |-> obj.root_weight, norm_by_out_degree |-> (obj.aggr # "sum")]

\* lines 99-100: concat_own=self.root_weight,
\* norm_by_out_degree=bool(self.aggr == 'mean')
kernel_flags(obj) ==
    [concat_own |-> obj.root_weight, norm_by_out_degree |-> (obj.aggr = "mean")]

\* faulty variant: the weight viewed as (out_channels, -1)
view_transposed(obj) ==
    LET v == Flatten(obj.weight, Len(obj.weight))
    IN  [j \in 1..Cols(v) |-> [i \in 1..Rows(v) |-> v[i][j]]]

\* line 102: self.weight.view(-1, self.out_channels)
view(obj) == Flatten(obj.weight, Len(obj.weight))

\* faulty variant: the bias added to the first row only
add_bias_first_row(obj, out) ==
    IF obj.bias # None
    THEN [i \in 1..Rows(out) |->
            [j \in 1..Cols(out) |->
               IF i = 1 THEN out[i][j] + Scale * obj.bias.val[j] ELSE out[i][j]]]
    ELSE out

\* lines 104-105: if self.bias is not None: out = out + self.bias
add_bias(obj, out) ==
    IF obj.bias # None
    THEN [i \in 1..Rows(out) |->
            [j \in 1..Cols(out) |-> out[i][j] + Scale * obj.bias.val[j]]]
    ELSE out

\* a call that raises st after the graph was built
Raised(st, x1, graph, flags, called) ==
    [status |-> st, x |-> x1, graph |-> graph, kernel_called |-> called,
     concat_own |-> flags.concat_own, norm_by_out_degree |-> flags.norm_by_out_degree,
     agg_width |-> 0, view_rows |-> 0, out |-> None]

\* lines 99-107: the kernel, the product with the weight, the bias
project(obj, x1, graph, ub) ==
    LET flags == kernel_flags(obj)
        agg == agg_hg_basis_n2n_post(x1, obj.comp, graph, flags.concat_own,
                                     flags.norm_by_out_degree, ub)
        w == view(obj)
    IN  IF agg.status # "ok" THEN Raised(agg.status, x1, graph, flags, TRUE)
        ELSE IF Cols(agg.out) # Rows(w)
        THEN [Raised("RuntimeError", x1, graph, flags, TRUE) EXCEPT
                 !.agg_width = Cols(agg.out), !.view_rows = Rows(w)]
        ELSE [status |-> "ok", x |-> x1, graph |-> graph, kernel_called |-> TRUE,
              concat_own |-> flags.concat_own,
              norm_by_out_degree |-> flags.norm_by_out_degree,
              agg_width |-> Cols(agg.out), view_rows |-> Rows(w),
              out |-> Some(add_bias(obj, MatMul(agg.out, w)))]

\* faulty variant: a fallback path taken when the kernel is not installed
forward_fallback(obj, kernel, x, csc, edge_type, max_num_neighbors, ub) ==
    LET x1 == default_x(obj, x, csc)
        graph == get_typed_cugraph(Rows(x1), csc, edge_type, obj.num_relations,
                                   max_num_neighbors)
    IN  project(obj, x1, graph, ub)

forward(obj, kernel, x, csc, edge_type, max_num_neighbors, ub) ==
    LET x1 == default_x(obj, x, csc)
        \* lines 96-97
        graph == get_typed_cugraph(Rows(x1), csc, edge_type, obj.num_relations,
                                   max_num_neighbors)
    IN  \* line 99 with the name RGCNConvAgg unbound
        IF ~kernel THEN Raised("NameError", x1, graph, kernel_flags(obj), FALSE)
        ELSE project(obj, x1, graph, ub)

\* faulty variant: the typed graph kept on the layer
after_forward_keeps_graph(obj, r) == [graph |-> r.graph] @@ obj

\* the layer after a forward call: no line of forward assigns to self
after_forward(obj, r) == obj

\* the choices that matter for a call: one when every read is in range
UBFor(obj, x, csc) ==
    LET x1 == default_x(obj, x, csc)
        g == get_typed_cugraph(Rows(x1), csc, <<>>, 0, None)
    IN  IF InRange(x1, g, kernel_flags(obj).concat_own)
        THEN {[crash |-> FALSE, read |-> 0]}
        ELSE UBChoices

\* everything a forward call on these inputs may return
Outcomes(obj, kernel, x, csc, edge_type, max_num_neighbors) ==
    { forward(obj, kernel, x, csc, edge_type, max_num_neighbors, ub) :
        ub \in UBFor(obj, x, csc) }

\* CuGraphRGCNConv.__repr__, lines 109-111
repr(obj) == <<"CuGraphRGCNConv", obj.in_channels, obj.out_channels, obj.num_relations>>

---------------------------------------------------------------------------
(* The inputs of forward. *)

\* colptr from the in-degrees of the targets
RECURSIVE ColPtr(_, _)
ColPtr(deg, n) == IF n = 0 THEN <<0>>
                  ELSE LET p == ColPtr(deg, n - 1) IN Append(p, p[n] + deg[n])

\* the graphs with num_src source nodes, of which the first num_dst are the
\* targets, E edges and edge types below R, in CSC form
GraphsOf(num_src, num_dst, E, R) ==
    { [num_src |-> num_src, row |-> row, colptr |-> ColPtr(deg, num_dst),
       edge_type |-> et] :
        row \in [1..E -> 0..(num_src - 1)],
        et \in [1..E -> 0..(R - 1)],
        deg \in {d \in [1..num_dst -> 0..E] : SumSeq(d, num_dst) = E} }

\* the graphs tried: source nodes + target nodes + edges within MaxGraph, the
\* targets among the source nodes
Graphs(R) ==
    UNION { GraphsOf(t[1], t[2], t[3], R) :
              t \in { z \in (1..MaxGraph) \X (1..MaxGraph) \X (0..MaxGraph) :
                        z[1] + z[2] + z[3] <= MaxGraph /\ z[2] <= z[1] } }

\* max_num_neighbors: absent, or given (an upper bound of every in-degree)
\* for a bipartite graph, the only case it has an effect in
Hints(g) ==
    IF Len(g.row) > 0 /\ g.num_src # Len(g.colptr) - 1
    THEN {None, Some(Len(g.row))}
    ELSE {None}

\* the widths of x tried: in_channels, one less and one more
Widths(obj) == {w \in (obj.in_channels - 1)..(obj.in_channels + 1) : w >= 1}

\* node features: row i (1-based) of a (n, w) matrix
Features(n, w) == [i \in 1..n |-> [j \in 1..w |-> 2 * i + j - 2]]

---------------------------------------------------------------------------
(* The optimizer of the training loop (external): it writes new values     *)
(* into the parameters and never changes their shapes.                     *)

optimizer_step(obj) ==
    [obj EXCEPT
       !.weight = [b \in 1..Len(obj.weight) |->
                     [i \in 1..Rows(obj.weight[b]) |->
                        [j \in 1..Cols(obj.weight[b]) |-> ((b + 2 * i + j) % 3) - 1]]],
       !.comp = IF obj.comp = None THEN None
                ELSE Some([r \in 1..Rows(obj.comp.val) |->
                             [b \in 1..Cols(obj.comp.val) |-> 1 + ((r + b) % 2)]]),
       !.bias = IF obj.bias = None THEN None
                ELSE Some([j \in 1..Len(obj.bias.val) |-> j])]

---------------------------------------------------------------------------
(* The operations. *)

\* layer = CuGraphRGCNConv(...): on success the layer exists; on ValueError
\* there is none
Construct ==
    /\ call = Idle
    /\ self = None
    /\ \E a \in CtorArgs, u \in Uninit, s \in 1..NumSeeds :
         /\ DimSum(a) <= MaxDims
         /\ LET r == __init__(a, u, s)
            IN  /\ call' = [op |-> "__init__", args |-> a, status |-> r.status, obj |-> r.obj]
                /\ self' = IF r.status = "ok" THEN Some(r.obj) ELSE None
    /\ UNCHANGED RGCNConvAgg

\* layer.reset_parameters()
ResetParameters ==
    /\ call = Idle
    /\ self # None
    /\ \E s \in 1..NumSeeds :
         /\ self' = Some(reset_parameters(self.val, s))
         /\ call' = [op |-> "reset_parameters", status |-> "ok"]
    /\ UNCHANGED RGCNConvAgg

\* a training step between two calls
OptimizerStep ==
    /\ call = Idle
    /\ self # None
    /\ self' = Some(optimizer_step(self.val))
    /\ call' = [op |-> "optimizer_step", status |-> "ok"]
    /\ UNCHANGED RGCNConvAgg

\* layer(x, csc, edge_type, max_num_neighbors)
Forward ==
    /\ call = Idle
    /\ self # None
    /\ \E g \in Graphs(self.val.num_relations) :
         /\ \E x \in {None} \cup {Some(Features(g.num_src, w)) : w \in Widths(self.val)},
               mnn \in Hints(g) :
              \E r \in Outcomes(self.val, RGCNConvAgg, x, <<g.row, g.colptr>>,
                                g.edge_type, mnn) :
                 /\ call' = [op |-> "forward", x |-> x, csc |-> <<g.row, g.colptr>>,
                             edge_type |-> g.edge_type, max_num_neighbors |-> mnn,
                             num_src |-> g.num_src, result |-> r]
                 /\ self' = Some(after_forward(self.val, r))
    /\ UNCHANGED RGCNConvAgg

\* repr(layer)
Repr ==
    /\ call = Idle
    /\ self # None
    /\ call' = [op |-> "__repr__", status |-> "ok", out |-> repr(self.val)]
    /\ UNCHANGED <<RGCNConvAgg, self>>

\* the caller takes the result (or the exception) and goes on
Return ==
    /\ call # Idle
    /\ call' = Idle
    /\ UNCHANGED <<RGCNConvAgg, self>>

\* import of the module, lines 11-15: the name RGCNConvAgg is bound iff
\* pylibcugraphops can be imported; ImportError is swallowed
Init ==
    /\ RGCNConvAgg \in BOOLEAN
    /\ self = None
    /\ call = Idle

Next ==
    \/ Construct
    \/ ResetParameters
    \/ OptimizerStep
    \/ Forward
    \/ Repr
    \/ Return

Spec == Init /\ [][Next]_vars

\* the behaviours in which the import at lines 11-15 succeeded: the claims
\* about what forward computes are checked over these
InitInstalled == Init /\ RGCNConvAgg

SpecInstalled == InitInstalled /\ [][Next]_vars

---------------------------------------------------------------------------
(* Properties. *)

Constructed == call.op = "__init__" /\ call.status = "ok"
Forwarded == call.op = "forward"
ForwardOk == Forwarded /\ call.result.status = "ok"

\* the indices of the graph of the last forward call lie inside the features
\* the layer handed to the kernel
CallInRange ==
    InRange(call.result.x, call.result.graph, call.result.concat_own)

\* the shape of a rank-3 tensor whose slices all have the same shape
Shape3(w) == <<Len(w), Rows(w[1]), Cols(w[1])>>
Shape2(m) == <<Rows(m), Cols(m)>>
Uniform3(w) == \A b \in 1..Len(w) : Shape2(w[b]) = Shape2(w[1])

\* C1: construction succeeds exactly for aggr in {sum, add, mean}; for every
\* other string it raises ValueError, whatever the other arguments are, and
\* the object then holds no weight, comp or bias and no layer exists.
C1_AggrValidated ==
    call.op = "__init__" =>
        IF call.args.aggr \in {"sum", "add", "mean"}
        THEN call.status = "ok" /\ self = Some(call.obj)
        ELSE /\ call.status = "ValueError"
             /\ {"weight", "comp", "bias"} \cap DOMAIN call.obj = {}
             /\ self = None

C1_Witness ==
    /\ call.op = "__init__"
    /\ call.status = "ValueError"
    /\ call.args.aggr = "max"
    /\ call.args.bias
    /\ call.args.num_bases # None

\* C2: the weight built by the constructor has shape
\* (Bn + 1 if Bn else R + 1, I, O) with root_weight and (Bn or R, I, O) without.
C2_WeightShape ==
    Constructed =>
        LET a == call.args
            lead == IF a.num_bases # None THEN a.num_bases.val ELSE a.num_relations
            B == IF a.root_weight THEN lead + 1 ELSE lead
        IN  /\ Shape3(self.val.weight) = <<B, a.in_channels, a.out_channels>>
            /\ Uniform3(self.val.weight)

C2_Witness ==
    /\ Constructed
    /\ call.args.num_bases = Some(2)
    /\ call.args.num_relations = 1
    /\ call.args.root_weight
    /\ Len(self.val.weight) = 3

\* C3 as stated: forward with x absent behaves as forward with x the N x N
\* identity, N the number of source nodes of the graph given by the CSC pair
\* (same node count, same features, same output).  Stated where the claim is
\* most definite: the kernel is installed, so there is an output to compare,
\* and the graph is square, so the CSC pair alone gives N = len(colptr) - 1.
C3_IdentityOfGraphSize ==
    (/\ Forwarded
     /\ call.x = None
     /\ RGCNConvAgg
     /\ call.num_src = Len(call.csc[2]) - 1) =>
        call.result \in Outcomes(self.val, RGCNConvAgg, Some(Eye(call.num_src)),
                                 call.csc, call.edge_type, call.max_num_neighbors)

\* C3 amended: forward with x absent substitutes the in_channels x in_channels
\* identity, hands in_channels to the graph builder as the node count, and
\* behaves as forward with x given as that identity.
C3_IdentityOfInChannels ==
    (Forwarded /\ call.x = None) =>
        /\ call.result.x = Eye(self.val.in_channels)
        /\ call.result.graph.num_src_nodes = self.val.in_channels
        /\ call.result \in Outcomes(self.val, RGCNConvAgg,
                                    Some(Eye(self.val.in_channels)),
                                    call.csc, call.edge_type, call.max_num_neighbors)

C3_Witness ==
    /\ ForwardOk
    /\ call.x = None
    /\ self.val.in_channels # call.num_src
    /\ Len(call.edge_type) > 0

C5_BiasLaw ==
    (ForwardOk /\ CallInRange) =>
        LET out == call.result.out.val
            ub0 == [crash |-> FALSE, read |-> 0]
        IN  IF self.val.bias # None
            THEN LET twin == [self.val EXCEPT !.bias = None]
                     base == forward(twin, RGCNConvAgg, call.x, call.csc,
                                     call.edge_type, call.max_num_neighbors, ub0)
                 IN  /\ base.status = "ok"
                     /\ Shape2(out) = Shape2(base.out.val)
                     /\ \A i \in 1..Rows(out) : \A j \in 1..Cols(out) :
                           out[i][j] = base.out.val[i][j] + Scale * self.val.bias.val[j]
            ELSE out = MatMul(
                        agg_hg_basis_n2n_post(call.result.x, self.val.comp,
                            call.result.graph, call.result.concat_own,
                            call.result.norm_by_out_degree, ub0).out,
                        Flatten(self.val.weight, Len(self.val.weight)))

C5_Witness ==
    /\ ForwardOk
    /\ CallInRange
    /\ self.val.bias # None
    /\ \E j \in 1..Len(self.val.bias.val) : self.val.bias.val[j] # 0
    /\ Rows(call.result.out.val) = 2

\* C6: without the kernel installed the import, the constructor and
\* reset_parameters succeed; every forward call raises at the line that uses
\* the kernel and none returns an output.
C6_MissingKernel ==
    ~RGCNConvAgg =>
        /\ (call.op = "__init__" /\ call.args.aggr \in {"sum", "add", "mean"})
              => call.status = "ok"
        /\ call.op = "reset_parameters" => call.status = "ok"
        /\ Forwarded => /\ call.result.status = "NameError"
                        /\ call.result.out = None
                        /\ ~call.result.kernel_called

C6_Witness ==
    /\ ~RGCNConvAgg
    /\ Forwarded
    /\ call.x # None
    /\ Cols(call.x.val) = self.val.in_channels
    /\ CallInRange

\* C7: right after construction and right after every reset_parameters the
\* bias, when enabled, has out_channels components, all exactly zero; when
\* disabled the slot is None and the call still succeeds.
C7_BiasZero ==
    /\ Constructed => (call.args.bias <=> self.val.bias # None)
    /\ (Constructed \/ call.op = "reset_parameters") =>
          /\ call.status = "ok"
          /\ self.val.bias # None =>
                /\ Len(self.val.bias.val) = self.val.out_channels
                /\ \A j \in 1..Len(self.val.bias.val) : self.val.bias.val[j] = 0

C7_Witness ==
    /\ call.op = "reset_parameters"
    /\ self.val.bias # None
    /\ self.val.out_channels = 2

\* C8: in every state with a layer, comp is present iff num_bases was given,
\* then of shape (num_relations, num_bases) with
\* num_bases = weight.shape[0] - (1 if root_weight else 0); and no step
\* changes num_bases or whether comp is present.
C8_CompInv ==
    self # None =>
        LET o == self.val
        IN  /\ (o.comp # None) <=> (o.num_bases # None)
            /\ o.comp # None =>
                  /\ Shape2(o.comp.val) = <<o.num_relations, o.num_bases.val>>
                  /\ Cols(o.comp.val) = Len(o.weight) - (IF o.root_weight THEN 1 ELSE 0)

C8_VariantFixed ==
    (self # None /\ self' # None) =>
        /\ self'.val.num_bases = self.val.num_bases
        /\ (self'.val.comp = None) <=> (self.val.comp = None)

\* C8: comp is present iff num_bases was given, with the shapes above, in
\* every reachable state, and the variant never changes.
C8_ParameterPresence == [](C8_CompInv) /\ [][C8_VariantFixed]_vars

C8_Witness ==
    /\ ForwardOk
    /\ self.val.comp # None
    /\ self.val.num_relations = 2
    /\ self.val.num_bases = Some(1)

\* C9: whenever forward invokes the kernel, concat_own is root_weight and
\* norm_by_out_degree is (aggr = "mean"); a layer with aggr "sum" and the one
\* with aggr "add" pass the same arguments and return the same.
C9_KernelFlags ==
    (Forwarded /\ call.result.kernel_called) =>
        /\ call.result.concat_own = self.val.root_weight
        /\ call.result.norm_by_out_degree = (self.val.aggr = "mean")
        /\ self.val.aggr \in {"sum", "add"} =>
              LET other == IF self.val.aggr = "sum" THEN "add" ELSE "sum"
              IN  call.result \in Outcomes([self.val EXCEPT !.aggr = other],
                                           RGCNConvAgg, call.x, call.csc,
                                           call.edge_type, call.max_num_neighbors)

\* a target with two neighbours of one type, where a mean differs from a sum
C9_Witness ==
    /\ ForwardOk
    /\ self.val.aggr = "add"
    /\ call.csc[2] = <<0, 2>>
    /\ call.edge_type = <<0, 0>>
    /\ call.result.out.val #
         forward([self.val EXCEPT !.aggr = "mean"], RGCNConvAgg, call.x, call.csc,
                 call.edge_type, call.max_num_neighbors,
                 [crash |-> FALSE, read |-> 0]).out.val

\* C10: a forward call, returning or raising, leaves every attribute of the
\* layer as it was and adds none (no graph handle is kept); with all reads in
\* range its result is a function of the inputs and the layer alone, so the
\* same call made again returns the same.
C10_ForwardStep ==
    (call.op = "idle" /\ call'.op = "forward") =>
        /\ self' = self
        /\ RGCNConvAgg' = RGCNConvAgg
        /\ InRange(call'.result.x, call'.result.graph, call'.result.concat_own) =>
              \A ub \in UBChoices :
                  forward(self'.val, RGCNConvAgg', call'.x, call'.csc, call'.edge_type,
                          call'.max_num_neighbors, ub) = call'.result

\* C10: every forward step leaves the layer unchanged and its result is
\* determined by the inputs and the layer.
C10_ForwardStateless == [][C10_ForwardStep]_vars

C10_Witness ==
    /\ Forwarded
    /\ call.result.status = "RuntimeError"
    /\ self.val.bias # None
    /\ self.val.comp # None

====
